---- MODULE Spec2Model ----
(***************************************************************************)
(* Model of src/prob.rs: a reference-counted frame arena (FrameAtor) and   *)
(* the persistent stacks (TypeStack) that share frame chains inside it.    *)
(*                                                                         *)
(* Indices are 0-based as in the source; the slot of index i is the        *)
(* (i+1)-th element of the sequence `frames`.  A slot is the pair          *)
(* <<Frame, count>> of the source's Vec<(Frame, usize)>: slot[1] is `.0`   *)
(* and slot[2] is `.1`.                                                    *)
(***************************************************************************)
EXTENDS Integers, Sequences, FiniteSets, TLC

\* Bounds of the model.
MaxHandles == 3     \* stack handles (local variables of type TypeStack)
MaxFrames == 3      \* length of the arena's table

\* enum DataType
DataType == {"Int", "Ptr", "Bool"}

\* Option<FrameIndex>::None
None == -1

Handles == 1..MaxHandles

VARIABLES
    frames,     \* FrameAtor.frames: Seq of <<[data_type, previous], count>>
    free,       \* FrameAtor.free: Seq of indices, last element = top
    panicked,   \* the process has aborted (failed unwrap, index out of
                \* bounds, or arithmetic overflow of a count)
    stacks,     \* stacks[h] = TypeStack.top of handle h (None when empty)
    last,       \* the operation that produced this state
    abs,        \* abs[h]: handle h as an independent list of tags
    scenario,   \* progress along the scenario of the specification
    output,     \* what the last call printed, wrote to its sink or returned
                \* to the caller as a view (<<>> when nothing)
    peak,       \* the largest number of slots that were live at once so far
    order       \* the live indices, in the order in which they were allocated

vars == <<frames, free, panicked, stacks, last, abs, scenario, output, peak,
          order>>

----------------------------------------------------------------------------
\* struct Frame { data_type, previous }
Frame(data_type, previous) == [data_type |-> data_type, previous |-> previous]

\* The arena as one value: the two fields of FrameAtor and the abort flag.
Ator(fr, fl, p) == [frames |-> fr, free |-> fl, panicked |-> p]

\* FrameAtor::default()
AtorDefault == Ator(<<>>, <<>>, FALSE)

InTable(a, index) == index >= 0 /\ index < Len(a.frames)

\* self.frames[index]
Slot(a, index) == a.frames[index + 1]

\* Vec::contains on the free list
Contains(fl, index) == \E k \in 1..Len(fl) : fl[k] = index

Panic(a) == [a EXCEPT !.panicked = TRUE]

\* alloc that reads the last freed index without taking it off the free list.
alloc_keep_free(a, init) ==
    IF Len(a.free) > 0
    THEN LET result == a.free[Len(a.free)]
         IN  IF InTable(a, result)
             THEN [ator |-> [a EXCEPT !.frames[result + 1] = <<init, 1>>],
                   result |-> result]
             ELSE [ator |-> Panic(a), result |-> result]
    ELSE [ator |-> [a EXCEPT !.frames = Append(a.frames, <<init, 1>>)],
          result |-> Len(a.frames)]

\* alloc that reuses the index that was freed first.
alloc_fifo(a, init) ==
    IF Len(a.free) > 0
    THEN LET result == a.free[1]
         IN  IF InTable(a, result)
             THEN [ator |-> [a EXCEPT !.free = Tail(a.free),
                                      !.frames[result + 1] = <<init, 1>>],
                   result |-> result]
             ELSE [ator |-> Panic([a EXCEPT !.free = Tail(a.free)]),
                   result |-> result]
    ELSE [ator |-> [a EXCEPT !.frames = Append(a.frames, <<init, 1>>)],
          result |-> Len(a.frames)]

\* FrameAtor::alloc
alloc(a, init) ==
    IF Len(a.free) > 0
    THEN LET result == a.free[Len(a.free)]
             popped == SubSeq(a.free, 1, Len(a.free) - 1)
         IN  IF InTable(a, result)
             THEN [ator |-> [a EXCEPT !.free = popped,
                                      !.frames[result + 1] = <<init, 1>>],
                   result |-> result]
             ELSE [ator |-> Panic([a EXCEPT !.free = popped]), result |-> result]
    ELSE [ator |-> [a EXCEPT !.frames = Append(a.frames, <<init, 1>>)],
          result |-> Len(a.frames)]

\* FrameAtor::acquire
acquire(a, index) ==
    IF ~InTable(a, index)
    THEN Panic(a)
    ELSE [a EXCEPT !.frames[index + 1][2] = @ + 1]

\* release that puts the slot on the free list whatever its count.
release_always_free(a, index) ==
    IF ~InTable(a, index) \/ Slot(a, index)[2] = 0
    THEN Panic(a)
    ELSE LET a1 == [a EXCEPT !.frames[index + 1][2] = @ - 1]
         IN  [a1 EXCEPT !.free = Append(a1.free, index)]

\* release that frees the slot but forgets the frame it links to.
release_no_cascade(a, index) ==
    IF ~InTable(a, index) \/ Slot(a, index)[2] = 0
    THEN Panic(a)
    ELSE LET a1 == [a EXCEPT !.frames[index + 1][2] = @ - 1]
         IN  IF Slot(a1, index)[2] = 0
             THEN [a1 EXCEPT !.free = Append(a1.free, index)]
             ELSE a1

\* FrameAtor::release.  A decrement of a count that is 0 aborts a build with
\* overflow checks and wraps otherwise; the model stops at that point in
\* either case and records it in `panicked`.
RECURSIVE release(_, _)
release(a, index) ==
    IF ~InTable(a, index) \/ Slot(a, index)[2] = 0
    THEN Panic(a)
    ELSE LET a1 == [a EXCEPT !.frames[index + 1][2] = @ - 1]
         IN  IF Slot(a1, index)[2] = 0
             THEN LET prev_index == Slot(a1, index)[1].previous
                      a2 == IF prev_index # None
                            THEN release(a1, prev_index)
                            ELSE a1
                  IN  IF a2.panicked
                      THEN a2
                      ELSE [a2 EXCEPT !.free = Append(a2.free, index)]
             ELSE a1

\* Option<&Frame>: Vec::get gives <<frame>> (Some) or <<>> (not found)
NotFound == <<>>
Some(x) == <<x>>
unwrap(o) == o[1]

\* deref that answers not-found for an index that is in the free list.
deref_live_only(a, index) ==
    IF InTable(a, index) /\ ~Contains(a.free, index)
    THEN Some(Slot(a, index)[1])
    ELSE NotFound

\* FrameAtor::deref
deref(a, index) ==
    IF InTable(a, index) THEN Some(Slot(a, index)[1]) ELSE NotFound

\* FrameAtor::deref_mut
deref_mut(a, index) ==
    IF InTable(a, index) THEN Some(Slot(a, index)[1]) ELSE NotFound

\* dump_dot without the test for the free list.
RECURSIVE dump_dot_from_all(_, _)
dump_dot_from_all(a, index) ==
    IF index >= Len(a.frames)
    THEN <<>>
    ELSE LET frame == Slot(a, index)[1]
             node == <<"Node", index, frame.data_type, Slot(a, index)[2]>>
             edge == <<"Edge", index, frame.previous>>
         IN  (IF frame.previous # None THEN <<node, edge>> ELSE <<node>>)
             \o dump_dot_from_all(a, index + 1)

\* FrameAtor::dump_dot: the lines written to the sink, in order.
RECURSIVE dump_dot_from(_, _)
dump_dot_from(a, index) ==
    IF index >= Len(a.frames)
    THEN <<>>
    ELSE LET frame == Slot(a, index)[1]
             ref_count == Slot(a, index)[2]
             node == <<"Node", index, frame.data_type, ref_count>>
             edge == <<"Edge", index, frame.previous>>
             lines == IF Contains(a.free, index)
                      THEN <<>>
                      ELSE IF frame.previous # None
                           THEN <<node, edge>>
                           ELSE <<node>>
         IN  lines \o dump_dot_from(a, index + 1)

dump_dot(a) == <<(<<"digraph Stacks {">>)>> \o dump_dot_from(a, 0) \o <<(<<"}">>)>>

----------------------------------------------------------------------------
\* TypeStack::default()
StackDefault == None

\* clone that copies the top without acquiring it.
clone_no_acquire(top, a) == [new |-> top, ator |-> a]

\* TypeStack::clone: the handle returned and the arena afterwards
clone(top, a) ==
    [new |-> top,
     ator |-> IF top # None THEN acquire(a, top) ELSE a]

\* push that acquires the previous top as well.
push_acquire_prev(top, a, data_type) ==
    LET r == alloc(a, Frame(data_type, top))
    IN  [top |-> r.result,
         ator |-> IF top # None THEN acquire(r.ator, top) ELSE r.ator]

\* TypeStack::push: the handle's top and the arena afterwards
push(top, a, data_type) ==
    LET r == alloc(a, Frame(data_type, top))
    IN  [top |-> r.result, ator |-> r.ator]

\* pop that takes index 0 for the top of an empty handle.
pop_default_top(top, a) ==
    LET top_index == IF top # None THEN top ELSE 0
        fr == deref_mut(a, top_index)
    IN  IF fr = NotFound
        THEN [top |-> top, ator |-> Panic(a)]
        ELSE LET prev == unwrap(fr).previous
                 a1 == IF prev # None THEN acquire(a, prev) ELSE a
                 a2 == IF a1.panicked THEN a1 ELSE release(a1, top_index)
             IN  [top |-> IF a2.panicked THEN top ELSE prev, ator |-> a2]

\* pop that releases the top without acquiring the frame below it first.
pop_no_acquire(top, a) ==
    IF top # None
    THEN LET fr == deref_mut(a, top)
         IN  IF fr = NotFound
             THEN [top |-> top, ator |-> Panic(a)]
             ELSE LET a2 == release(a, top)
                  IN  [top |-> IF a2.panicked THEN top ELSE unwrap(fr).previous,
                       ator |-> a2]
    ELSE [top |-> top, ator |-> a]

\* TypeStack::pop: the handle's top and the arena afterwards
pop(top, a) ==
    IF top # None
    THEN LET top_index == top
             fr == deref_mut(a, top_index)
         IN  IF fr = NotFound
             THEN [top |-> top, ator |-> Panic(a)]
             ELSE LET prev == unwrap(fr).previous
                      a1 == IF prev # None THEN acquire(a, prev) ELSE a
                      a2 == IF a1.panicked THEN a1 ELSE release(a1, top_index)
                  IN  [top |-> IF a2.panicked THEN top ELSE prev, ator |-> a2]
    ELSE [top |-> top, ator |-> a]

\* TypeStack::dump: the tags printed, top to bottom.  A walk of more than
\* Len(frames) steps has visited an index twice and never ends ("Loop"); a
\* failed unwrap aborts ("Panic").
RECURSIVE dump_walk(_, _, _)
dump_walk(top, a, fuel) ==
    IF top = None
    THEN <<>>
    ELSE IF fuel = 0
         THEN <<"Loop">>
         ELSE LET frame == deref(a, top)
              IN  IF frame = NotFound
                  THEN <<"Panic">>
                  ELSE <<unwrap(frame).data_type>>
                       \o dump_walk(unwrap(frame).previous, a, fuel - 1)

dump(top, a) == dump_walk(top, a, Len(a.frames))

----------------------------------------------------------------------------
\* The arena of the current state.
ator == Ator(frames, free, panicked)

\* The independent-list reading of the three stack operations.
AbsPush(l, d) == <<d>> \o l
AbsPop(l) == IF l = <<>> THEN <<>> ELSE Tail(l)
AbsClone(l) == l

\* The scenario: push Int, push Ptr, push Bool on S (handle 1), T = clone of
\* S (handle 2), pop T, pop T.  scenario = k after its first k operations,
\* NoScenario once the run has left it.
Script ==
    << [op |-> "push", h |-> 1, arg |-> "Int", ret |-> 0],
       [op |-> "push", h |-> 1, arg |-> "Ptr", ret |-> 0],
       [op |-> "push", h |-> 1, arg |-> "Bool", ret |-> 0],
       [op |-> "clone", h |-> 1, arg |-> "", ret |-> 2],
       [op |-> "pop", h |-> 2, arg |-> "", ret |-> 0],
       [op |-> "pop", h |-> 2, arg |-> "", ret |-> 0] >>

NoScenario == Len(Script) + 1

Advance(op, h, arg, ret) ==
    IF /\ scenario # NoScenario
       /\ scenario < Len(Script)
       /\ Script[scenario + 1] = [op |-> op, h |-> h, arg |-> arg, ret |-> ret]
    THEN scenario + 1
    ELSE NoScenario

\* The operation that was executed last: its name, the handle it was called
\* on, the data type pushed (push), that handle's top before the call, and
\* the handle that received the result (clone).
Op(op, h, arg, pre, ret) == [op |-> op, h |-> h, arg |-> arg, pre |-> pre, ret |-> ret]

\* The number of slots of arena a that are not in its free list.
LiveCount(a) ==
    Cardinality({i \in 0..(Len(a.frames) - 1) : ~Contains(a.free, i)})

\* The largest number of live slots seen, arena a included.
Peak(a) == IF LiveCount(a) > peak THEN LiveCount(a) ELSE peak

\* The allocation order after a call that leaves arena a: the indices that
\* are still live keep their places, the newly allocated ones follow.
Order(a) ==
    LET StillLive(i) == ~Contains(a.free, i)
        kept == SelectSeq(order, StillLive)
        born == {i \in 0..(Len(a.frames) - 1) :
                    ~Contains(a.free, i) /\ ~Contains(order, i)}
    IN  IF born = {} THEN kept ELSE Append(kept, CHOOSE i \in born : TRUE)

\* fn main: FrameAtor::default() and TypeStack::default() for every handle.
Init ==
    /\ frames = AtorDefault.frames
    /\ free = AtorDefault.free
    /\ panicked = AtorDefault.panicked
    /\ stacks = [h \in Handles |-> StackDefault]
    /\ last = Op("init", 0, "", None, 0)
    /\ abs = [h \in Handles |-> <<>>]
    /\ scenario = 0
    /\ output = <<>>
    /\ peak = 0
    /\ order = <<>>

SetAtor(a) ==
    /\ frames' = a.frames
    /\ free' = a.free
    /\ panicked' = a.panicked
    /\ peak' = Peak(a)
    /\ order' = Order(a)

\* stack.push(ator, data_type) on handle h.  The table is capped at
\* MaxFrames slots.
Push(h, data_type) ==
    /\ ~panicked
    /\ Len(free) > 0 \/ Len(frames) < MaxFrames
    /\ LET r == push(stacks[h], ator, data_type)
       IN  /\ SetAtor(r.ator)
           /\ stacks' = [stacks EXCEPT ![h] = r.top]
    /\ last' = Op("push", h, data_type, stacks[h], 0)
    /\ abs' = [abs EXCEPT ![h] = AbsPush(abs[h], data_type)]
    /\ scenario' = Advance("push", h, data_type, 0)
    /\ output' = <<>>

\* stack.pop(ator) on handle h.
Pop(h) ==
    /\ ~panicked
    /\ LET r == pop(stacks[h], ator)
       IN  /\ SetAtor(r.ator)
           /\ stacks' = [stacks EXCEPT ![h] = r.top]
    /\ last' = Op("pop", h, "", stacks[h], 0)
    /\ abs' = [abs EXCEPT ![h] = AbsPop(abs[h])]
    /\ scenario' = Advance("pop", h, "", 0)
    /\ output' = <<>>

\* g = h.clone(ator): the handle g that receives the clone has been popped
\* to empty before it is overwritten.
Clone(h, g) ==
    /\ ~panicked
    /\ g # h
    /\ stacks[g] = None
    /\ LET r == clone(stacks[h], ator)
       IN  /\ SetAtor(r.ator)
           /\ stacks' = [stacks EXCEPT ![g] = r.new]
    /\ last' = Op("clone", h, "", stacks[h], g)
    /\ abs' = [abs EXCEPT ![g] = AbsClone(abs[h])]
    /\ scenario' = Advance("clone", h, "", g)
    /\ output' = <<>>

Next ==
    \/ \E h \in Handles, d \in DataType : Push(h, d)
    \/ \E h \in Handles : Pop(h)
    \/ \E h, g \in Handles : Clone(h, g)

Spec == Init /\ [][Next]_vars

----------------------------------------------------------------------------
\* Vocabulary of the properties.

Indices == 0..(Len(frames) - 1)

IsFree(i) == Contains(free, i)
IsLive(i) == i \in Indices /\ ~IsFree(i)

Count(i) == Slot(ator, i)[2]
Previous(i) == Slot(ator, i)[1].previous
Tag(i) == Slot(ator, i)[1].data_type

\* The indices met by following back-links from `top` in arena a, at most
\* `fuel` of them.
RECURSIVE ChainFrom(_, _, _)
ChainFrom(top, a, fuel) ==
    IF top = None \/ fuel = 0 \/ ~InTable(a, top)
    THEN {}
    ELSE {top} \cup ChainFrom(Slot(a, top)[1].previous, a, fuel - 1)

Chain(top) == ChainFrom(top, ator, Len(frames))

\* The indices some handle reaches.
Reachable == UNION {Chain(stacks[h]) : h \in Handles}

HandleHolders(i) == {h \in Handles : stacks[h] = i}
FrameHolders(i) == {j \in Indices : IsLive(j) /\ Previous(j) = i}

\* C1: a slot is live (its index is not in the free list) if and only if
\* some handle reaches it from its top by following back-links.
C1_LiveIffReachable ==
    \A i \in Indices : IsLive(i) <=> i \in Reachable

\* A pop has freed the popped frame, which no handle reaches any more, while
\* the frame below it is still reached by another handle and is live.
C1_Witness ==
    /\ last.op = "pop"
    /\ last.pre # None
    /\ IsFree(last.pre)
    /\ last.pre \notin Reachable
    /\ Previous(last.pre) # None
    /\ Previous(last.pre) \in Reachable
    /\ IsLive(Previous(last.pre))

\* C2: the stored count of every live slot is the number of handles whose
\* top it is plus the number of live frames whose back-link it is.
C2_CountIsHolders ==
    \A i \in Indices :
        IsLive(i) =>
            Count(i) = Cardinality(HandleHolders(i)) + Cardinality(FrameHolders(i))

\* A live slot held by two handles and by two frames at once.
C2_Witness ==
    \E i \in Indices :
        /\ IsLive(i)
        /\ Cardinality(HandleHolders(i)) >= 1
        /\ Cardinality(FrameHolders(i)) >= 2
        /\ Count(i) >= 3

\* C3: every slot that is not in the free list has count >= 1, and no
\* handle's top and no live frame's back-link is free or outside the table.
C3_LiveSlotsAreHeld ==
    /\ \A i \in Indices : IsLive(i) => Count(i) >= 1
    /\ \A h \in Handles : stacks[h] # None => IsLive(stacks[h])
    /\ \A i \in Indices :
           (IsLive(i) /\ Previous(i) # None) => IsLive(Previous(i))

\* After a pop that freed a slot, a handle still has a top with a back-link.
C3_Witness ==
    /\ last.op = "pop"
    /\ last.pre # None
    /\ IsFree(last.pre)
    /\ \E h \in Handles :
           /\ stacks[h] # None
           /\ Previous(stacks[h]) # None
           /\ Count(Previous(stacks[h])) >= 2

----------------------------------------------------------------------------
\* The tag sequence of handle h, before and after a step.
TagSeq(h) == dump(stacks[h], ator)
TagSeqAfter(h) == dump(stacks'[h], ator')

\* The handle whose value the step just taken has assigned.
Assigned == IF last'.op = "clone" THEN last'.ret ELSE last'.h

\* C4: a push, pop or clone on one handle never changes the tag sequence of
\* any other handle; in particular popping a handle that shares a suffix
\* with another one down to empty leaves the other's sequence the same after
\* every pop.
C4_OthersUnaffected ==
    [][\A g \in Handles : g # Assigned => TagSeqAfter(g) = TagSeq(g)]_vars

\* A handle has just been popped to empty, and the frame it gave up last is
\* still in the chain of another handle: the two shared that suffix.
C4_Witness ==
    /\ last.op = "pop"
    /\ last.pre # None
    /\ stacks[last.h] = None
    /\ \E g \in Handles :
           /\ g # last.h
           /\ last.pre \in Chain(stacks[g])
           /\ Len(TagSeq(g)) >= 2

\* C5: b = a.clone(arena) on a non-empty a gives b the top and the tag
\* sequence of a, leaves a's sequence unchanged, raises the count of the
\* shared top by exactly one (to 2 when a was its only holder) and changes
\* no other slot, nor the free list, nor the table length; on an empty a it
\* returns an empty handle and changes nothing in the arena.
C5_CloneStep ==
    LET a == last'.h
        b == last'.ret
        t == stacks[a]
    IN  IF t # None
        THEN /\ stacks'[b] = t
             /\ stacks'[a] = t
             /\ TagSeqAfter(b) = TagSeqAfter(a)
             /\ TagSeqAfter(a) = TagSeq(a)
             /\ Len(frames') = Len(frames)
             /\ frames'[t + 1][2] = frames[t + 1][2] + 1
             /\ frames[t + 1][2] = 1 => frames'[t + 1][2] = 2
             /\ frames'[t + 1][1] = frames[t + 1][1]
             /\ \A i \in Indices : i # t => frames'[i + 1] = frames[i + 1]
             /\ free' = free
             /\ ~panicked'
        ELSE /\ stacks'[b] = None
             /\ stacks'[a] = None
             /\ frames' = frames
             /\ free' = free
             /\ ~panicked'

C5_Clone == [][last'.op = "clone" => C5_CloneStep]_vars

\* A clone of a handle that was the only holder of its top: both handles
\* have that top, whose count is now 2, above a longer chain.
C5_Witness ==
    /\ last.op = "clone"
    /\ last.pre # None
    /\ stacks[last.h] = last.pre
    /\ stacks[last.ret] = last.pre
    /\ Count(last.pre) = 2
    /\ Len(TagSeq(last.ret)) >= 2

\* C6: the tag sequence of every handle equals the independent list that
\* push (prepend), pop (remove the first, no-op when empty) and clone (copy)
\* build for it.
C6_RefinesLists ==
    \A h \in Handles : TagSeq(h) = abs[h]

\* Two handles with different sequences of two or more tags share a frame.
C6_Witness ==
    \E h, g \in Handles :
        /\ abs[h] # abs[g]
        /\ Len(abs[h]) >= 2
        /\ Len(abs[g]) >= 2
        /\ Chain(stacks[h]) \cap Chain(stacks[g]) # {}
        /\ TagSeq(h) = abs[h]
        /\ TagSeq(g) = abs[g]

\* C7: pop on a handle whose top is none leaves the handle empty and leaves
\* the table, every count and the free list as they were.
C7_PopEmptyStep ==
    /\ stacks'[last'.h] = None
    /\ stacks' = stacks
    /\ frames' = frames
    /\ free' = free
    /\ ~panicked'

C7_PopEmpty ==
    [][(last'.op = "pop" /\ stacks[last'.h] = None) => C7_PopEmptyStep]_vars

\* An empty handle has just been popped in an arena that holds live frames
\* and a freed slot.
C7_Witness ==
    /\ last.op = "pop"
    /\ last.pre = None
    /\ stacks[last.h] = None
    /\ Len(free) > 0
    /\ \E i \in Indices : IsLive(i)

----------------------------------------------------------------------------
\* The live slots that carry tag d.
WithTag(d) == {i \in Indices : IsLive(i) /\ Tag(i) = d}

\* C8: from an empty arena and an empty handle S, push Int, push Ptr, push
\* Bool make S [Bool, Ptr, Int]; after T = clone of S and two pops of T, T is
\* [Int], S is still [Bool, Ptr, Int], the Bool and the Ptr frame have count
\* 1, the Int frame has count 2, and no slot is in the free list.
C8_Scenario ==
    /\ scenario = 3 => TagSeq(1) = <<"Bool", "Ptr", "Int">>
    /\ scenario = Len(Script) =>
           /\ TagSeq(2) = <<"Int">>
           /\ TagSeq(1) = <<"Bool", "Ptr", "Int">>
           /\ \A d \in DataType : Cardinality(WithTag(d)) = 1
           /\ \A i \in WithTag("Bool") : Count(i) = 1
           /\ \A i \in WithTag("Ptr") : Count(i) = 1
           /\ \A i \in WithTag("Int") : Count(i) = 2
           /\ free = <<>>
           /\ ~panicked

\* The scenario has been run to its end.
C8_Witness ==
    /\ scenario = Len(Script)
    /\ last.op = "pop"
    /\ last.h = 2

\* C9: the index alloc returns was not live just before the call: it was no
\* handle's top, no live frame's back-link and not reached by any handle;
\* after the call its slot has count 1.
C9_AllocStep ==
    LET result == stacks'[last'.h]
    IN  /\ ~IsLive(result)
        /\ \A g \in Handles : stacks[g] # result
        /\ \A j \in Indices : IsLive(j) => Previous(j) # result
        /\ result \notin Reachable
        /\ result \in 0..(Len(frames') - 1)
        /\ frames'[result + 1][2] = 1
        /\ ~panicked'

C9_AllocFresh == [][last'.op = "push" => C9_AllocStep]_vars

\* A push has reused a freed slot (its index is not the last of the table)
\* while another handle holds live frames.
C9_Witness ==
    /\ last.op = "push"
    /\ stacks[last.h] < Len(frames) - 1
    /\ \E g \in Handles : g # last.h /\ stacks[g] # None

\* The index the n-th of n allocations in a row returns.
RECURSIVE NthAlloc(_, _)
NthAlloc(a, n) ==
    LET r == alloc(a, Frame("Int", None))
    IN  IF n <= 1 THEN r.result ELSE NthAlloc(r.ator, n - 1)

\* The indices dump_dot writes a node for.
DotNodes == {dump_dot(ator)[k][2] : k \in {n \in 1..Len(dump_dot(ator)) : dump_dot(ator)[n][1] = "Node"}}

\* At an operation boundary the free list holds exactly the indices whose
\* count is 0, each once.
C10_FreeIsZeroCount ==
    /\ \A i \in Indices : IsFree(i) <=> Count(i) = 0
    /\ \A k \in 1..Len(free) : free[k] \in Indices
    /\ \A k, n \in 1..Len(free) : free[k] = free[n] => k = n

\* An index of count 0 is not written by dump_dot, and the allocations that
\* follow return it: the k-th from the end of the free list is returned by
\* the k-th allocation.
C10_FreeIsReusable ==
    /\ \A i \in Indices : Count(i) = 0 => i \notin DotNodes
    /\ \A k \in 1..Len(free) : NthAlloc(ator, k) = free[Len(free) + 1 - k]

\* An index enters the free list exactly when its count drops to 0 and leaves
\* it exactly when alloc returns it and resets its count to 1.
C10_FreeStep ==
    \A i \in 0..(Len(frames') - 1) :
        /\ (IsFree(i)' /\ ~IsFree(i)) <=>
               (i \in Indices /\ Count(i) > 0 /\ frames'[i + 1][2] = 0)
        /\ (IsFree(i) /\ ~IsFree(i)') <=>
               /\ last'.op = "push"
               /\ stacks'[last'.h] = i
               /\ i \in Indices
               /\ frames'[i + 1][2] = 1

\* C10: the free list holds exactly the table indices whose count is 0, each
\* at most once; an index enters it exactly when a release drops its count
\* to 0 and leaves it exactly when alloc reuses it with count 1; an index of
\* count 0 is not written by dump_dot and is returned by a later alloc.
C10_FreeList ==
    /\ [](C10_FreeIsZeroCount /\ C10_FreeIsReusable)
    /\ [][C10_FreeStep]_vars

\* A pop has just freed a cascade of two slots next to a live one.
C10_Witness ==
    /\ last.op = "pop"
    /\ Len(free) >= 2
    /\ IsFree(last.pre)
    /\ free[Len(free)] = last.pre
    /\ \E i \in Indices : IsLive(i)
    /\ Len(dump_dot(ator)) = 3

----------------------------------------------------------------------------
\* A non-empty handle going out of scope, as stack0 and stack1 do when
\* generate_tree returns.  TypeStack has no destructor, so the arena is left
\* as it is; the handle's name is free for a new empty handle.

MaxLeaks == 1       \* counts left behind by handles that went out of scope

RECURSIVE LeakedFrom(_)
LeakedFrom(i) ==
    IF i >= Len(frames)
    THEN 0
    ELSE (IF IsLive(i)
          THEN Count(i) - Cardinality(HandleHolders(i)) - Cardinality(FrameHolders(i))
          ELSE 0) + LeakedFrom(i + 1)

\* The counts no handle and no live frame accounts for.
Leaked == LeakedFrom(0)

Drop(h) ==
    /\ ~panicked
    /\ stacks[h] # None
    /\ stacks' = [stacks EXCEPT ![h] = StackDefault]
    /\ last' = Op("drop", h, "", stacks[h], 0)
    /\ abs' = [abs EXCEPT ![h] = <<>>]
    /\ scenario' = Advance("drop", h, "", 0)
    /\ output' = <<>>
    /\ UNCHANGED <<frames, free, panicked, peak, order>>

\* The run is followed until MaxLeaks counts have been left behind.
NextDrop ==
    \/ Leaked < MaxLeaks /\ \E h \in Handles, d \in DataType : Push(h, d)
    \/ Leaked < MaxLeaks /\ \E h \in Handles : Pop(h)
    \/ Leaked < MaxLeaks /\ \E h, g \in Handles : Clone(h, g)
    \/ Leaked < MaxLeaks /\ \E h \in Handles : Drop(h)

SpecDrop == Init /\ [][NextDrop]_vars

\* C11: whenever a handle goes out of scope, exactly one release of its top
\* is performed if it is non-empty, so that no count stays held on behalf of
\* a handle that no longer exists.
C11_DropReleases ==
    [][(last'.op = "drop" /\ stacks[last'.h] # None) =>
           /\ Ator(frames', free', panicked') = release(ator, stacks[last'.h])
           /\ C2_CountIsHolders']_vars

----------------------------------------------------------------------------
\* The observing calls: TypeStack::dump, FrameAtor::dump_dot, FrameAtor::deref
\* and FrameAtor::deref_mut.

\* dump that walks the chain by popping the handle it is called on.
RECURSIVE dump_popping(_, _)
dump_popping(top, a) ==
    IF top = None \/ a.panicked
    THEN [printed |-> <<>>, top |-> top, ator |-> a]
    ELSE LET r == pop(top, a)
             rest == dump_popping(r.top, r.ator)
         IN  [rest EXCEPT !.printed = <<Slot(a, top)[1].data_type>> \o @]

\* A call of TypeStack::dump: the tags printed, and the handle (&self) and
\* the arena (used through deref only) after the call.
dump_call(top, a) == [printed |-> dump(top, a), top |-> top, ator |-> a]

\* stack.dump(ator) on handle h.
Dump(h) ==
    /\ ~panicked
    /\ LET r == dump_call(stacks[h], ator)
       IN  /\ SetAtor(r.ator)
           /\ stacks' = [stacks EXCEPT ![h] = r.top]
           /\ output' = r.printed
    /\ last' = Op("dump", h, "", stacks[h], 0)
    /\ UNCHANGED <<abs, scenario>>

\* ator.dump_dot(sink)
DumpDot ==
    /\ ~panicked
    /\ output' = dump_dot(ator)
    /\ last' = Op("dump_dot", 0, "", None, 0)
    /\ UNCHANGED <<frames, free, panicked, peak, order, stacks, abs, scenario>>

NextDump ==
    \/ Next
    \/ \E h \in Handles : Dump(h)
    \/ DumpDot

SpecDump == Init /\ [][NextDump]_vars

\* C12: TypeStack::dump changes neither the handle nor the arena (table,
\* counts, free list), so a second dump of the unmodified stack yields the
\* same tag sequence as the first.
C12_DumpStep ==
    LET h == last'.h
    IN  /\ stacks' = stacks
        /\ frames' = frames
        /\ free' = free
        /\ ~panicked'
        /\ output' = abs[h]
        /\ dump_call(stacks'[h], ator').printed = output'

C12_DumpPure == [][last'.op = "dump" => C12_DumpStep]_vars

\* A handle of two or more frames whose top is shared has been dumped.
C12_Witness ==
    /\ last.op = "dump"
    /\ Len(output) >= 2
    /\ output = abs[last.h]
    /\ Count(stacks[last.h]) >= 2

----------------------------------------------------------------------------
\* The positions of the node and edge lines of a dump (all but the first and
\* the last line).
Body(out) == 2..(Len(out) - 1)
NodeLines(out, i) == {k \in Body(out) : out[k][1] = "Node" /\ out[k][2] = i}
EdgeLines(out, i) == {k \in Body(out) : out[k][1] = "Edge" /\ out[k][2] = i}

\* C14: dump_dot writes exactly one node per table index that is not in the
\* free list, labelled with the slot's tag and count, and one edge per such
\* slot that has a back-link; it writes nothing for free indices, every edge
\* points to an index that has a node in the same dump, and the arena is
\* left unchanged.
C14_DumpDotStep ==
    LET out == output'
    IN  /\ \A i \in Indices :
               IF IsLive(i)
               THEN /\ Cardinality(NodeLines(out, i)) = 1
                    /\ \A k \in NodeLines(out, i) :
                           out[k] = <<"Node", i, Tag(i), Count(i)>>
                    /\ Cardinality(EdgeLines(out, i)) =
                           IF Previous(i) # None THEN 1 ELSE 0
                    /\ \A k \in EdgeLines(out, i) :
                           /\ out[k] = <<"Edge", i, Previous(i)>>
                           /\ NodeLines(out, Previous(i)) # {}
               ELSE NodeLines(out, i) = {} /\ EdgeLines(out, i) = {}
        /\ \A k \in Body(out) : out[k][2] \in Indices
        /\ frames' = frames
        /\ free' = free
        /\ stacks' = stacks
        /\ ~panicked'

C14_DumpDot == [][last'.op = "dump_dot" => C14_DumpDotStep]_vars

\* A dump of an arena with a freed slot, a shared frame and an edge.
C14_Witness ==
    /\ last.op = "dump_dot"
    /\ Len(free) > 0
    /\ \E i \in Indices :
           /\ IsLive(i)
           /\ Previous(i) # None
           /\ Count(Previous(i)) >= 2
           /\ EdgeLines(output, i) # {}

----------------------------------------------------------------------------
\* ator.deref(index) and ator.deref_mut(index) for the indices of the table
\* and the first one beyond it; `last.pre` is the index asked for.
Deref(index) ==
    /\ ~panicked
    /\ output' = deref(ator, index)
    /\ last' = Op("deref", 0, "", index, 0)
    /\ UNCHANGED <<frames, free, panicked, peak, order, stacks, abs, scenario>>

DerefMut(index) ==
    /\ ~panicked
    /\ output' = deref_mut(ator, index)
    /\ last' = Op("deref_mut", 0, "", index, 0)
    /\ UNCHANGED <<frames, free, panicked, peak, order, stacks, abs, scenario>>

NextDeref ==
    \/ Next
    \/ \E index \in 0..Len(frames) : Deref(index)
    \/ \E index \in 0..Len(frames) : DerefMut(index)

SpecDeref == Init /\ [][NextDeref]_vars

\* C13: deref(i) and deref_mut(i) return the frame stored at i for every i
\* below the table length, free or not, and not-found for every i at or
\* beyond it; neither changes a count, the free list or the table length.
C13_DerefStep ==
    LET i == last'.pre
    IN  /\ i < Len(frames) => output' = <<frames[i + 1][1]>>
        /\ i >= Len(frames) => output' = <<>>
        /\ frames' = frames
        /\ free' = free
        /\ stacks' = stacks
        /\ ~panicked'

C13_Deref == [][last'.op \in {"deref", "deref_mut"} => C13_DerefStep]_vars

\* deref has returned the stale frame of an index that is in the free list.
C13_Witness ==
    /\ last.op = "deref"
    /\ IsFree(last.pre)
    /\ output = <<Slot(ator, last.pre)[1]>>
    /\ \E i \in Indices : IsLive(i)

----------------------------------------------------------------------------
\* TypeStack::pop statement by statement, for a handle whose top is some
\* index: (1) read the back-link of the top frame and acquire it if there is
\* one, (2) release the top, (3) self.top = prev.

\* The two arena statements in the opposite order.
pop_step_release_first(pc, top_index, a) ==
    LET fr == deref_mut(a, top_index)
    IN  IF fr = NotFound
        THEN Panic(a)
        ELSE LET prev == unwrap(fr).previous
             IN  IF pc = 1
                 THEN release(a, top_index)
                 ELSE IF prev # None THEN acquire(a, prev) ELSE a

\* The arena after statement pc (1 or 2) of pop on a handle with top
\* top_index, from arena a.
pop_step(pc, top_index, a) ==
    LET fr == deref_mut(a, top_index)
    IN  IF fr = NotFound
        THEN Panic(a)
        ELSE LET prev == unwrap(fr).previous
             IN  IF pc = 1
                 THEN IF prev # None THEN acquire(a, prev) ELSE a
                 ELSE release(a, top_index)

\* A pop is under way: `last` holds its handle (h) and its top_index (pre).
InPop == last.op \in {"pop_acquire", "pop_release"}

\* The local `prev` of the pop that `last` describes.
PrevOfPop == Slot(ator, last.pre)[1].previous

PopAcquire(h) ==
    /\ ~panicked
    /\ ~InPop
    /\ stacks[h] # None
    /\ SetAtor(pop_step(1, stacks[h], ator))
    /\ last' = Op("pop_acquire", h, "", stacks[h], 0)
    /\ output' = <<>>
    /\ UNCHANGED <<stacks, abs, scenario>>

PopRelease ==
    /\ ~panicked
    /\ last.op = "pop_acquire"
    /\ SetAtor(pop_step(2, last.pre, ator))
    /\ last' = Op("pop_release", last.h, "", last.pre, 0)
    /\ output' = <<>>
    /\ UNCHANGED <<stacks, abs, scenario>>

PopAssign ==
    /\ ~panicked
    /\ last.op = "pop_release"
    /\ stacks' = [stacks EXCEPT ![last.h] = PrevOfPop]
    /\ last' = Op("pop", last.h, "", last.pre, 0)
    /\ abs' = [abs EXCEPT ![last.h] = AbsPop(abs[last.h])]
    /\ scenario' = Advance("pop", last.h, "", 0)
    /\ output' = <<>>
    /\ UNCHANGED <<frames, free, panicked, peak, order>>

NextPop ==
    \/ ~InPop /\ \E h \in Handles, d \in DataType : Push(h, d)
    \/ ~InPop /\ \E h, g \in Handles : Clone(h, g)
    \/ ~InPop /\ \E h \in Handles : stacks[h] = None /\ Pop(h)
    \/ \E h \in Handles : PopAcquire(h)
    \/ PopRelease
    \/ PopAssign

SpecPop == Init /\ [][NextPop]_vars

\* During a pop of a top that has a back-link prev, and right after it, prev
\* has count >= 1 and is not in the free list.
C15_PrevStaysLive ==
    (/\ last.op \in {"pop_acquire", "pop_release", "pop"}
     /\ last.pre # None
     /\ PrevOfPop # None)
        => /\ InTable(ator, PrevOfPop)
           /\ Count(PrevOfPop) >= 1
           /\ ~IsFree(PrevOfPop)
           /\ ~panicked

\* The statements of a pop come in the order acquire(prev), release(top),
\* top = prev.
C15_Order ==
    /\ last'.op = "pop_acquire" =>
           /\ stacks' = stacks
           /\ free' = free
           /\ frames'[last'.pre + 1] = frames[last'.pre + 1]
           /\ LET prev == frames[last'.pre + 1][1].previous
              IN  prev # None => frames'[prev + 1][2] = frames[prev + 1][2] + 1
    /\ last'.op = "pop_release" =>
           /\ last.op = "pop_acquire"
           /\ stacks' = stacks
           /\ stacks[last'.h] = last'.pre
           /\ frames'[last'.pre + 1][2] = frames[last'.pre + 1][2] - 1
    /\ (last'.op = "pop" /\ last'.pre # None) =>
           /\ last.op = "pop_release"
           /\ frames' = frames
           /\ free' = free
           /\ stacks'[last'.h] = frames[last'.pre + 1][1].previous

\* C15: pop on a handle whose top has back-link prev performs acquire(prev)
\* before release(top) and only then sets top = prev; in every intermediate
\* state and in the state after the pop, prev has count >= 1 and is not in
\* the free list, also when the popped frame was prev's only other holder.
C15_PopOrder == []C15_PrevStaysLive /\ [][C15_Order]_vars

\* Between release(top) and top = prev: the top has been freed, the handle
\* still names it, and prev, which only the freed frame held, has count 1.
C15_Witness ==
    /\ last.op = "pop_release"
    /\ stacks[last.h] = last.pre
    /\ IsFree(last.pre)
    /\ PrevOfPop # None
    /\ Count(PrevOfPop) = 1
    /\ HandleHolders(PrevOfPop) = {}

----------------------------------------------------------------------------
\* The owner of a non-empty handle gives it up with one call of
\* ator.release on its top; the handle is empty afterwards.
Release(h) ==
    /\ ~panicked
    /\ stacks[h] # None
    /\ SetAtor(release(ator, stacks[h]))
    /\ stacks' = [stacks EXCEPT ![h] = StackDefault]
    /\ last' = Op("release", h, "", stacks[h], 0)
    /\ abs' = [abs EXCEPT ![h] = <<>>]
    /\ scenario' = Advance("release", h, "", 0)
    /\ output' = <<>>

NextRelease ==
    \/ Next
    \/ \E h \in Handles : Release(h)

SpecRelease == Init /\ [][NextRelease]_vars

\* The maximal run of frames whose count is 1, from i along the back-links.
RECURSIVE OnesRun(_)
OnesRun(i) ==
    IF i = None \/ ~(i \in Indices)
    THEN <<>>
    ELSE IF Count(i) = 1 THEN <<i>> \o OnesRun(Previous(i)) ELSE <<>>

\* The first frame from i along the back-links whose count is not 1 (None
\* when the run ends at the bottom of the chain).
RECURSIVE FirstShared(_)
FirstShared(i) ==
    IF i = None \/ ~(i \in Indices)
    THEN None
    ELSE IF Count(i) = 1 THEN FirstShared(Previous(i)) ELSE i

Reverse(q) == [k \in 1..Len(q) |-> q[Len(q) + 1 - k]]

InSeq(q, x) == \E k \in 1..Len(q) : q[k] = x

\* C16: release(i) on a live slot takes exactly 1 from the count of i; if the
\* result is not 0 nothing else changes; otherwise the release is applied to
\* i's back-link first and i is then appended to the free list.  A cascade
\* frees exactly the maximal run of frames from i whose counts were 1, takes
\* 1 from the first ancestor whose count was greater than 1 without freeing
\* it, changes no slot beyond it, and appends the freed indices to the free
\* list with ancestors before descendants, i last.
C16_ReleaseStep ==
    LET i == last'.pre
        run == OnesRun(i)
        stop == FirstShared(i)
    IN  /\ IsLive(i)
        /\ frames'[i + 1][2] = Count(i) - 1
        /\ Len(frames') = Len(frames)
        /\ \A j \in Indices : frames'[j + 1][1] = frames[j + 1][1]
        /\ Count(i) > 1 =>
               /\ free' = free
               /\ \A j \in Indices : j # i => frames'[j + 1] = frames[j + 1]
        /\ \A j \in Indices : InSeq(run, j) => frames'[j + 1][2] = 0
        /\ stop # None =>
               /\ frames'[stop + 1][2] = Count(stop) - 1
               /\ frames'[stop + 1][2] >= 1
               /\ ~InSeq(free', stop)
        /\ \A j \in Indices :
               (~InSeq(run, j) /\ j # stop) => frames'[j + 1] = frames[j + 1]
        /\ free' = free \o Reverse(run)
        /\ ~panicked'

C16_Release == [][last'.op = "release" => C16_ReleaseStep]_vars

\* A release has freed its slot and the one below it: the two are the last
\* two of the free list, the ancestor first, and the frame below them is
\* still live.
C16_Witness ==
    /\ last.op = "release"
    /\ Len(free) >= 2
    /\ free[Len(free)] = last.pre
    /\ free[Len(free) - 1] = Previous(last.pre)
    /\ Previous(Previous(last.pre)) # None
    /\ IsLive(Previous(Previous(last.pre)))

----------------------------------------------------------------------------
\* C17: push(d) on a handle with top t creates one frame with tag d,
\* back-link t and count 1 and makes it the handle's top; it changes the
\* count, the tag and the back-link of no slot that was live before the call
\* (t's count in particular: no acquire).
C17_PushStep ==
    LET h == last'.h
        t == stacks[h]
        new == stacks'[h]
    IN  /\ new \in 0..(Len(frames') - 1)
        /\ ~IsLive(new)
        /\ frames'[new + 1] = <<Frame(last'.arg, t), 1>>
        /\ \A j \in Indices : IsLive(j) => frames'[j + 1] = frames[j + 1]
        /\ t # None => frames'[t + 1][2] = Count(t)
        /\ LiveCount(ator') = LiveCount(ator) + 1
        /\ \A g \in Handles : g # h => stacks'[g] = stacks[g]
        /\ ~panicked'

C17_Push == [][last'.op = "push" => C17_PushStep]_vars

\* A push on a handle whose top was shared with another handle: the old top
\* is now held by that handle and by the new frame, with count 2, and the new
\* frame sits in a reused slot.
C17_Witness ==
    /\ last.op = "push"
    /\ last.pre # None
    /\ Previous(stacks[last.h]) = last.pre
    /\ Count(stacks[last.h]) = 1
    /\ Count(last.pre) = 2
    /\ Cardinality(HandleHolders(last.pre)) = 1
    /\ stacks[last.h] < Len(frames) - 1

----------------------------------------------------------------------------
\* The allocation of a push step: the last index of the free list, taken off
\* it, when there is one; a slot appended to the table otherwise.
C18_AllocStep ==
    LET result == stacks'[last'.h]
    IN  IF Len(free) > 0
        THEN /\ result = free[Len(free)]
             /\ free' = SubSeq(free, 1, Len(free) - 1)
             /\ Len(frames') = Len(frames)
        ELSE /\ result = Len(frames)
             /\ free' = free
             /\ Len(frames') = Len(frames) + 1

\* The table never shrinks, and it grows, by one slot, only in an allocation
\* that finds the free list empty.
C18_TableStep ==
    /\ Len(frames') >= Len(frames)
    /\ Len(frames') # Len(frames) =>
           /\ last'.op = "push"
           /\ free = <<>>
           /\ Len(frames') = Len(frames) + 1

\* C18: alloc returns the most recently freed index (the last of the free
\* list, which it removes) when the free list is non-empty and otherwise
\* appends a slot and returns the previous table length; the table grows by
\* one only when no freed index exists, never shrinks, and its length is the
\* largest number of frames that were live at the same time.
C18_Alloc ==
    /\ [](Len(frames) = peak)
    /\ [][(last'.op = "push" => C18_AllocStep) /\ C18_TableStep]_vars

\* A push has reused a freed slot of a full table while another freed slot
\* stays on the free list.
C18_Witness ==
    /\ last.op = "push"
    /\ Len(free) >= 1
    /\ Len(frames) >= 3
    /\ peak = Len(frames)
    /\ LiveCount(ator) < peak

----------------------------------------------------------------------------
\* The indices met from i along the back-links, i first, at most `fuel` of
\* them.
RECURSIVE WalkFrom(_, _)
WalkFrom(i, fuel) ==
    IF i = None \/ fuel = 0 \/ ~(i \in Indices)
    THEN <<>>
    ELSE <<i>> \o WalkFrom(Previous(i), fuel - 1)

\* The walk from i ends at none after at most Len(frames) frames, all live
\* and all different.
EndsAtNone(i) ==
    LET w == WalkFrom(i, Len(frames) + 1)
    IN  /\ Len(w) <= Len(frames)
        /\ Previous(w[Len(w)]) = None
        /\ \A k \in 1..Len(w) : IsLive(w[k])
        /\ \A k, n \in 1..Len(w) : w[k] = w[n] => k = n

\* x was allocated before y.
Older(x, y) ==
    \E k, n \in 1..Len(order) : k < n /\ order[k] = x /\ order[n] = y

\* C19: each live frame's back-link points to a frame allocated before it,
\* also after freed indices have been reused; so following back-links from
\* a live slot reaches none without visiting an index twice, and the walk of
\* TypeStack::dump and the recursion of release end.
C19_Acyclic ==
    /\ \A i \in Indices : IsLive(i) <=> Contains(order, i)
    /\ \A i \in Indices :
           IsLive(i) =>
               /\ Previous(i) # None => Older(Previous(i), i)
               /\ EndsAtNone(i)
               /\ ~release(ator, i).panicked
    /\ \A h \in Handles :
           /\ ~Contains(TagSeq(h), "Loop")
           /\ Len(TagSeq(h)) = Len(WalkFrom(stacks[h], Len(frames) + 1))

\* A frame in a reused slot links to a frame of larger index, which is
\* older, below which the chain goes on.
C19_Witness ==
    \E i \in Indices :
        /\ IsLive(i)
        /\ Previous(i) # None
        /\ Previous(i) > i
        /\ Older(Previous(i), i)
        /\ Previous(Previous(i)) # None

----------------------------------------------------------------------------
\* The arguments of the calls of acquire and release that a clone or a pop
\* makes are indices of the table whose count is at least 1 at the call.
C20_CallArgs ==
    /\ (last'.op = "clone" /\ last'.pre # None) =>
           /\ InTable(ator, last'.pre)
           /\ Count(last'.pre) >= 1
    /\ (last'.op = "pop" /\ last'.pre # None) =>
           LET top_index == last'.pre
           IN  /\ InTable(ator, top_index)
               /\ Count(top_index) >= 1
               /\ Previous(top_index) # None =>
                      /\ InTable(ator, Previous(top_index))
                      /\ Count(Previous(top_index)) >= 1
                      /\ Previous(top_index) # top_index

\* C20: no sequence of push, pop and clone from empty handles calls acquire
\* or release, the releases of a cascade included, on an index outside the
\* table or with count 0: the decrement in release never underflows and the
\* unwraps of deref in pop and dump never fail.
C20_NoFault ==
    /\ [](/\ ~panicked
          /\ \A h \in Handles : ~Contains(TagSeq(h), "Panic"))
    /\ [][C20_CallArgs]_vars

\* A pop has freed its top, and the release that followed on the frame
\* below took its count from 2 to 1.
C20_Witness ==
    /\ last.op = "pop"
    /\ last.pre # None
    /\ IsFree(last.pre)
    /\ Previous(last.pre) # None
    /\ stacks[last.h] = Previous(last.pre)
    /\ Count(Previous(last.pre)) = 1
    /\ ~panicked

====
